---- MODULE Spec2Model ----
(***************************************************************************)
(* CosmicOptic backend: the synthetic light-curve generator                *)
(* (services/data_generator.py), the classification resolver and result    *)
(* assembler (services/prediction.py), the attribution engine              *)
(* (services/explainer.py) and the /api/predict route (main.py).           *)
(*                                                                         *)
(* Numbers.  A Python/numpy float is a record [k, v]: k = "fin" with v the *)
(* value in millionths (truncated fixed point), k = "nan", or k = "inf"    *)
(* with v = 1 or -1.  Sample times and orbital phases, on which the        *)
(* transit test depends, are exact rationals <<num, den>>.                 *)
(***************************************************************************)
EXTENDS Integers, Sequences, FiniteSets, TLC

\* ---------------------------------------------------------------- bounds
\* Largest num_points the generator entry points are called with directly.
MaxPoints == 19
\* An entropy-seeded draw returns one of the noise vectors 0..MaxEntropy.
MaxEntropy == 1

VARIABLES
    hashSeed,   \* this process's string-hash randomisation seed
    rng,        \* state of numpy's process-wide random generator
    call,       \* the operation last called, with its arguments
    ret         \* what that operation returned or raised

vars == <<hashSeed, rng, call, ret>>

\* ------------------------------------------------------- exact rationals
Abs(x) == IF x < 0 THEN -x ELSE x

RECURSIVE Gcd(_, _)
Gcd(a, b) == IF b = 0 THEN a ELSE Gcd(b, a % b)

\* n/d in lowest terms with a positive denominator (d # 0)
Rat(n, d) ==
    LET g == Gcd(Abs(n), Abs(d))
        s == IF d < 0 THEN -1 ELSE 1
    IN  <<(s * n) \div g, (s * d) \div g>>

RLt(a, b) == a[1] * b[2] < b[1] * a[2]
RLe(a, b) == a[1] * b[2] <= b[1] * a[2]
RAdd(a, b) == Rat(a[1] * b[2] + b[1] * a[2], a[2] * b[2])
RSub(a, b) == Rat(a[1] * b[2] - b[1] * a[2], a[2] * b[2])
RMul(a, b) == Rat(a[1] * b[1], a[2] * b[2])
RDiv(a, b) == Rat(a[1] * b[2], a[2] * b[1])
RHalf == <<1, 2>>

\* ------------------------------------------------ floats, in millionths
Scale == 1000 * 1000

Fin(v) == [k |-> "fin", v |-> v]
NaN == [k |-> "nan", v |-> 0]
PInf == [k |-> "inf", v |-> 1]
NInf == [k |-> "inf", v |-> -1]
One == Fin(Scale)
Zero == Fin(0)

IsNaN(a) == a.k = "nan"
IsInf(a) == a.k = "inf"
IsFinite(a) == a.k = "fin"
Sign(x) == IF x < 0 THEN -1 ELSE IF x > 0 THEN 1 ELSE 0

\* a * b / Scale on integers, truncated toward zero, without leaving 32 bits
MulFix(a, b) ==
    LET s == IF (a < 0) # (b < 0) THEN -1 ELSE 1
        x == Abs(a)
        y == Abs(b)
        x1 == x \div 1000
        x0 == x % 1000
        y1 == y \div 1000
        y0 == y % 1000
    IN  s * (x1 * y1 + (x1 * y0 + x0 * y1 + (x0 * y0) \div 1000) \div 1000)

RECURSIVE Pow10(_)
Pow10(k) == IF k = 0 THEN 1 ELSE 10 * Pow10(k - 1)

\* the k decimal digits of r / b, for 0 <= r < b
RECURSIVE DivDigits(_, _, _)
DivDigits(r, b, k) ==
    IF k = 0 THEN 0
    ELSE ((r * 10) \div b) * Pow10(k - 1) + DivDigits((r * 10) % b, b, k - 1)

\* a * Scale / b on integers (b # 0), truncated toward zero
DivFix(a, b) ==
    LET s == IF (a < 0) # (b < 0) THEN -1 ELSE 1
        x == Abs(a)
        y == Abs(b)
    IN  s * ((x \div y) * Scale + DivDigits(x % y, y, 6))

\* the float nearest below a rational
RatToFloat(q) == Fin(DivFix(q[1], q[2]))

FNeg(a) == IF IsNaN(a) THEN NaN ELSE [a EXCEPT !.v = -a.v]
FAbs(a) == IF IsNaN(a) THEN NaN ELSE [a EXCEPT !.v = Abs(a.v)]

FAdd(a, b) ==
    IF IsNaN(a) \/ IsNaN(b) THEN NaN
    ELSE IF IsInf(a) /\ IsInf(b) THEN (IF a.v = b.v THEN a ELSE NaN)
    ELSE IF IsInf(a) THEN a
    ELSE IF IsInf(b) THEN b
    ELSE Fin(a.v + b.v)

FSub(a, b) == FAdd(a, FNeg(b))

FMul(a, b) ==
    IF IsNaN(a) \/ IsNaN(b) THEN NaN
    ELSE IF IsInf(a) \/ IsInf(b)
         THEN (IF a.v = 0 \/ b.v = 0 THEN NaN
               ELSE IF Sign(a.v) = Sign(b.v) THEN PInf ELSE NInf)
    ELSE Fin(MulFix(a.v, b.v))

\* numpy's true division: x/0 is +-inf, 0/0 is nan, and nothing is raised
FDiv(a, b) ==
    IF IsNaN(a) \/ IsNaN(b) THEN NaN
    ELSE IF IsInf(a) THEN (IF IsInf(b) THEN NaN
                           ELSE IF b.v < 0 THEN FNeg(a) ELSE a)
    ELSE IF IsInf(b) THEN Zero
    ELSE IF b.v = 0 THEN (IF a.v = 0 THEN NaN
                          ELSE IF a.v > 0 THEN PInf ELSE NInf)
    ELSE Fin(DivFix(a.v, b.v))

\* a < b as IEEE compares: false whenever a nan is involved
FLt(a, b) ==
    IF IsNaN(a) \/ IsNaN(b) THEN FALSE
    ELSE IF IsInf(a) THEN (a.v < 0 /\ ~(IsInf(b) /\ b.v < 0))
    ELSE IF IsInf(b) THEN b.v > 0
    ELSE a.v < b.v

FGt(a, b) == FLt(b, a)
FLe(a, b) == ~IsNaN(a) /\ ~IsNaN(b) /\ ~FLt(b, a)

\* Python's builtin max(a, b) and min(a, b) on two floats
PyMax(a, b) == IF FGt(b, a) THEN b ELSE a
PyMin(a, b) == IF FLt(b, a) THEN b ELSE a

\* ------------------------------------------------ numpy's random source
\* The first draws of numpy.random.seed(42); numpy.random.normal(0, 1), in
\* thousandths; draws past the table repeat it.
StdNormal42 ==
    <<497, -138, 648, 1523, -234, -234, 1579, 767, -469, 543,
      -463, -466, 242, -1913, -1725, -562, -1013, 314, -908, -1412,
      1466, -226, 68, -1425, -544, 111, -1151, 376, -601, -292,
      -602, 1852, -13, -1058, 823, -1221, 209, -1960, -1328, 197,
      738, 171, -116, -301, -1479, -720, -461, 1057, 344, -1763>>

StdNormalAt(pos) == StdNormal42[(pos % Len(StdNormal42)) + 1]

\* The generator as the interpreter starts it: seeded from OS entropy.
Unseeded == [kind |-> "os", seed |-> 0, pos |-> 0]
\* numpy.random.seed(s)
Seeded(s) == [kind |-> "seeded", seed |-> s, pos |-> 0]

\* numpy.random.normal(0, sigma, n) in state r: n values, sigma in millionths.
\* A seeded generator yields its stream from r.pos on; an entropy-seeded one
\* yields a vector nobody determines, here the one numbered pick.
RandomNormal(r, pick, sigma, n) ==
    LET base == IF r.kind = "seeded" THEN r.pos ELSE 7 * pick + 3
    IN  [i \in 1..n |->
            LET z == StdNormalAt(base + i - 1)
            IN  Fin(Sign(z) * ((Abs(z) * sigma) \div 1000))]

\* the generator's state after n draws
Advance(r, n) == IF r.kind = "seeded" THEN [r EXCEPT !.pos = r.pos + n] ELSE r

\* -------------------------------------- services/data_generator.py
None == [k |-> "none", v |-> 0]
IsNone(a) == a.k = "none"

R_earth == 6371
R_sun == 696000
ObservationDays == 30
MergeGap == 10

\* Transit depth = (R_planet / R_star)^2; radii are read in hundredths.
calculate_realistic_depth(planet_radius_earth, star_radius_solar) ==
    IF IsNaN(planet_radius_earth) THEN NaN
    ELSE IF IsInf(planet_radius_earth) THEN PInf
    ELSE LET R_planet == (planet_radius_earth.v \div 10000) * R_earth
             R_star == (star_radius_solar.v \div 10000) * R_sun
             ratio == DivFix(R_planet, R_star)
         IN  Fin(MulFix(ratio, ratio))

\* linspace as np.linspace(0, 30, num_points, endpoint=False) would give it
linspace_open(num_points) ==
    [i \in 1..num_points |-> Rat(ObservationDays * (i - 1), num_points)]

\* np.linspace(0, 30, num_points): the end point 30 is a sample
linspace(num_points) ==
    [i \in 1..num_points |->
        IF num_points = 1 THEN <<0, 1>>
        ELSE Rat(ObservationDays * (i - 1), num_points - 1)]

\* the depth with the amplification applied whatever the computed depth
EffectiveDepth_amplified(transit_depth, planet_radius_earth) ==
    IF IsNone(planet_radius_earth) THEN transit_depth
    ELSE FMul(calculate_realistic_depth(planet_radius_earth, One),
              Fin(100 * Scale))

\* the depth the transit is drawn with (lines 46-54)
EffectiveDepth(transit_depth, planet_radius_earth) ==
    IF IsNone(planet_radius_earth) THEN transit_depth
    ELSE LET d == calculate_realistic_depth(planet_radius_earth, One)
         IN  IF FLt(d, Fin(500)) THEN FMul(d, Fin(100 * Scale)) ELSE d

\* min(0.04, transit_duration / (period_days * 24)), period_days # 0
TransitWidth(period_days, transit_duration) ==
    LET x == RDiv(transit_duration, RMul(period_days, <<24, 1>>))
    IN  IF RLt(x, <<1, 25>>) THEN x ELSE <<1, 25>>

\* (t % period_days) / period_days for period_days > 0
Phase(t, period_days) ==
    LET q == RDiv(t, period_days)
    IN  Rat(q[1] % q[2], q[2])

\* the test with the window closed at its start
InTransit_closed(phase, transit_width) ==
    LET phase_start == RSub(RHalf, RMul(transit_width, RHalf))
        phase_end == RAdd(RHalf, RMul(transit_width, RHalf))
    IN  RLe(phase_start, phase) /\ RLt(phase, phase_end)

\* phase_start < phase < phase_end (line 74)
InTransit(phase, transit_width) ==
    LET phase_start == RSub(RHalf, RMul(transit_width, RHalf))
        phase_end == RAdd(RHalf, RMul(transit_width, RHalf))
    IN  RLt(phase_start, phase) /\ RLt(phase, phase_end)

\* depth_factor of an in-transit sample (lines 77-79)
DepthFactor(phase, transit_width, transit_depth) ==
    LET relative_phase ==
            RatToFloat(RDiv(RSub(phase, RHalf), RMul(transit_width, RHalf)))
        limb_factor ==
            FSub(One, FMul(Fin(100000),
                           FSub(One, FMul(relative_phase, relative_phase))))
        edge == FSub(One, FMul(FAbs(relative_phase), Fin(200000)))
    IN  FMul(FMul(transit_depth, limb_factor), edge)

\* the bookkeeping with the extension keeping the latest dip as the depth
RecordTransit_last(transit_regions, i, depth_factor) ==
    LET m == Len(transit_regions)
    IN  IF m = 0 \/ transit_regions[m].end_index < i - MergeGap
        THEN Append(transit_regions,
                    [start_index |-> i, end_index |-> i, depth |-> depth_factor])
        ELSE [transit_regions EXCEPT
                ![m] = [@ EXCEPT !.end_index = i, !.depth = depth_factor]]

\* the bookkeeping with the extension writing start_index instead of end_index
RecordTransit_start(transit_regions, i, depth_factor) ==
    LET m == Len(transit_regions)
    IN  IF m = 0 \/ transit_regions[m].end_index < i - MergeGap
        THEN Append(transit_regions,
                    [start_index |-> i, end_index |-> i, depth |-> depth_factor])
        ELSE [transit_regions EXCEPT
                ![m] = [@ EXCEPT !.start_index = i,
                                 !.depth = PyMax(@, depth_factor)]]

\* the bookkeeping of lines 83-94 for an in-transit sample i (0-based)
RecordTransit(transit_regions, i, depth_factor) ==
    LET m == Len(transit_regions)
    IN  IF m = 0 \/ transit_regions[m].end_index < i - MergeGap
        THEN Append(transit_regions,
                    [start_index |-> i, end_index |-> i, depth |-> depth_factor])
        ELSE [transit_regions EXCEPT
                ![m] = [@ EXCEPT !.end_index = i,
                                 !.depth = PyMax(@, depth_factor)]]

\* the loop of lines 68-94 from sample i on
RECURSIVE ScanTransits(_, _, _, _)
ScanTransits(i, g, flux, transit_regions) ==
    IF i = Len(g.time) THEN [flux |-> flux, transit_regions |-> transit_regions]
    ELSE LET phase == Phase(g.time[i + 1], g.period_days)
         IN  IF InTransit(phase, g.transit_width)
             THEN LET depth_factor ==
                          DepthFactor(phase, g.transit_width, g.transit_depth)
                  IN  ScanTransits(
                          i + 1, g,
                          [flux EXCEPT ![i + 1] = FSub(@, depth_factor)],
                          RecordTransit(transit_regions, i, depth_factor))
             ELSE ScanTransits(i + 1, g, flux, transit_regions)

tolist(time) == [i \in 1..Len(time) |-> RatToFloat(time[i])]

\* generate_confirmed_planet; noise is what np.random.normal returned.
\* period_days = 0 raises ZeroDivisionError at line 66.
generate_confirmed_planet(period_days, transit_depth, transit_duration, num_points, planet_radius_earth, noise) ==
    LET time == linspace(num_points)
        flux == [i \in 1..num_points |-> FAdd(One, noise[i])]
    IN  IF period_days[1] = 0
        THEN [raised |-> "ZeroDivisionError", time |-> <<>>, flux |-> <<>>,
              transit_regions |-> <<>>]
        ELSE LET g == [time |-> time,
                       period_days |-> period_days,
                       transit_width |-> TransitWidth(period_days, transit_duration),
                       transit_depth |->
                           EffectiveDepth(transit_depth, planet_radius_earth)]
                 out == ScanTransits(0, g, flux, <<>>)
             IN  [raised |-> "", time |-> tolist(time), flux |-> out.flux,
                  transit_regions |-> out.transit_regions]

\* sin(2*pi*u) for a rational u in [0, 1), by Bhaskara's rational
\* approximation sin(pi*x) ~ 16x(1-x) / (5 - 4x(1-x)) on [0, 1]
SinTurn(u) ==
    LET neg == ~RLt(u, RHalf)
        x == IF neg THEN RSub(RMul(u, <<2, 1>>), <<1, 1>>) ELSE RMul(u, <<2, 1>>)
        p == RMul(x, RSub(<<1, 1>>, x))
        s == RatToFloat(RDiv(RMul(<<16, 1>>, p), RSub(<<5, 1>>, RMul(<<4, 1>>, p))))
    IN  IF neg THEN FNeg(s) ELSE s

RAbs(a) == <<Abs(a[1]), a[2]>>

\* 0.05 * (1 - |t - t_center| / 0.5) where |t - t_center| < 0.5, else 0
EclipseDip(t, t_center) ==
    LET dist == RAbs(RSub(t, <<t_center, 1>>))
    IN  IF RLt(dist, RHalf)
        THEN RatToFloat(RMul(<<1, 20>>, RSub(<<1, 1>>, RMul(dist, <<2, 1>>))))
        ELSE Zero

\* the sigma of the noise each anomaly type draws, in millionths
FalsePositiveSigma(anomaly_type) ==
    IF anomaly_type = "eclipsing_binary" THEN 1000
    ELSE IF anomaly_type = "stellar_variability" THEN 3000
    ELSE 5000

\* generate_false_positive reporting the eclipses as a transit region
generate_false_positive_dips(num_points, anomaly_type, noise) ==
    LET time == linspace(num_points)
        flux ==
            [i \in 1..num_points |->
                IF anomaly_type = "eclipsing_binary"
                THEN FSub(FSub(FSub(FAdd(One, noise[i]),
                                    EclipseDip(time[i], 7)),
                               EclipseDip(time[i], 14)),
                          EclipseDip(time[i], 21))
                ELSE IF anomaly_type = "stellar_variability"
                THEN LET q == RDiv(time[i], <<10, 1>>)
                     IN  FAdd(FAdd(One,
                                   FMul(Fin(20000),
                                        SinTurn(Rat(q[1] % q[2], q[2])))),
                              noise[i])
                ELSE FAdd(One, noise[i])]
    IN  [raised |-> "", time |-> tolist(time), flux |-> flux,
         transit_regions |->
             IF anomaly_type = "eclipsing_binary" /\ num_points > 0
             THEN <<[start_index |-> 0, end_index |-> num_points - 1,
                     depth |-> Fin(50000)]>>
             ELSE <<>>]

\* generate_false_positive (lines 99-131); noise is what np.random.normal
\* returned
generate_false_positive(num_points, anomaly_type, noise) ==
    LET time == linspace(num_points)
        flux ==
            [i \in 1..num_points |->
                IF anomaly_type = "eclipsing_binary"
                THEN FSub(FSub(FSub(FAdd(One, noise[i]),
                                    EclipseDip(time[i], 7)),
                               EclipseDip(time[i], 14)),
                          EclipseDip(time[i], 21))
                ELSE IF anomaly_type = "stellar_variability"
                THEN LET q == RDiv(time[i], <<10, 1>>)
                     IN  FAdd(FAdd(One,
                                   FMul(Fin(20000),
                                        SinTurn(Rat(q[1] % q[2], q[2])))),
                              noise[i])
                ELSE FAdd(One, noise[i])]
    IN  [raised |-> "", time |-> tolist(time), flux |-> flux,
         transit_regions |-> <<>>]

generate_candidate(num_points, noise) ==
    LET time == linspace(num_points)
        flux ==
            [i \in 1..num_points |->
                LET phase == Phase(time[i], <<26, 5>>)
                IN  IF RLt(<<12, 25>>, phase) /\ RLt(phase, <<13, 25>>)
                    THEN FSub(FAdd(One, noise[i]), Fin(5000))
                    ELSE FAdd(One, noise[i])]
    IN  [raised |-> "", time |-> tolist(time), flux |-> flux,
         transit_regions |-> <<>>]

\* ------------------------------------------------ numpy array helpers
RECURSIVE SumUpTo(_, _)
SumUpTo(a, i) == IF i = 0 THEN Zero ELSE FAdd(SumUpTo(a, i - 1), a[i])

\* np.mean: the mean of an empty array is nan
NpMean(a) == FDiv(SumUpTo(a, Len(a)), Fin(Len(a) * Scale))

\* np.max, which a nan anywhere in the array turns into nan (Len(a) > 0)
RECURSIVE MaxUpTo(_, _)
MaxUpTo(a, i) ==
    IF i = 1 THEN a[1]
    ELSE LET m == MaxUpTo(a, i - 1)
         IN  IF IsNaN(m) \/ IsNaN(a[i]) THEN NaN
             ELSE IF FGt(a[i], m) THEN a[i] ELSE m

NpMax(a) == MaxUpTo(a, Len(a))

HasNaN(a) == \E i \in 1..Len(a) : IsNaN(a[i])

\* a sorted ascending (no nan inside), by insertion
RECURSIVE InsertSorted(_, _)
InsertSorted(sorted, x) ==
    IF sorted = <<>> THEN <<x>>
    ELSE IF FLt(x, Head(sorted)) THEN <<x>> \o sorted
    ELSE <<Head(sorted)>> \o InsertSorted(Tail(sorted), x)

RECURSIVE SortUpTo(_, _)
SortUpTo(a, i) == IF i = 0 THEN <<>> ELSE InsertSorted(SortUpTo(a, i - 1), a[i])

\* np.percentile(a, q) with linear interpolation (Len(a) > 0); nan if a has one
NpPercentile(a, q) ==
    IF HasNaN(a) THEN NaN
    ELSE LET sorted == SortUpTo(a, Len(a))
             pos == q * (Len(a) - 1)
             lo == pos \div 100
             frac == Fin(((pos % 100) * Scale) \div 100)
             hi == IF lo + 1 < Len(a) THEN lo + 1 ELSE lo
         IN  FAdd(sorted[lo + 1],
                  FMul(FSub(sorted[hi + 1], sorted[lo + 1]), frac))

NpMedian(a) == NpPercentile(a, 50)

\* np.clip(x, lo, hi): a nan stays nan
NpClip(x, lo, hi) ==
    IF IsNaN(x) THEN NaN ELSE IF FLt(x, lo) THEN lo ELSE IF FGt(x, hi) THEN hi ELSE x

\* exp(-k) for k = 0, 1, ..., in millionths
ExpNegInt == <<1000000, 367879, 135335, 49787, 18315, 6737, 2478, 911, 335,
               123, 45, 16, 6, 2>>

\* exp(-x) for an integer x >= 0 in millionths: exp(-floor) from the table times
\* the degree-6 Taylor polynomial of exp(-frac)
ExpNeg(x) ==
    LET k == x \div Scale
        f == x % Scale
        t6 == Scale - f \div 6
        t5 == Scale - MulFix(f, t6) \div 5
        t4 == Scale - MulFix(f, t5) \div 4
        t3 == Scale - MulFix(f, t4) \div 3
        t2 == Scale - MulFix(f, t3) \div 2
        t1 == Scale - MulFix(f, t2)
    IN  IF k >= Len(ExpNegInt) THEN 0 ELSE MulFix(ExpNegInt[k + 1], t1)

\* np.exp(-0.5 * q ** 2)
GaussianWeight(q) ==
    IF IsNaN(q) THEN NaN
    ELSE IF IsInf(q) THEN Zero
    ELSE IF Abs(q.v) > 6 * Scale THEN Zero
    ELSE Fin(ExpNeg(MulFix(q.v, q.v) \div 2))

\* scipy.ndimage.gaussian_filter1d(sigma=1.5): the kernel of radius
\* int(4 * 1.5 + 0.5) = 6, normalised, in millionths
GaussKernel == <<89, 1028, 7597, 35994, 109341, 212968, 265964, 212968, 109341,
                 35994, 7597, 1028, 89>>
KernelRadius == 6

\* index j of an array of n entries extended by mode='reflect' (0-based)
RECURSIVE Reflect(_, _)
Reflect(j, n) ==
    IF j < 0 THEN Reflect(-j - 1, n)
    ELSE IF j >= n THEN Reflect(2 * n - 1 - j, n)
    ELSE j

RECURSIVE FilterTap(_, _, _)
FilterTap(a, i, k) ==
    IF k > 2 * KernelRadius + 1 THEN Zero
    ELSE FAdd(FMul(a[Reflect(i - 1 + k - 1 - KernelRadius, Len(a)) + 1],
                   Fin(GaussKernel[k])),
              FilterTap(a, i, k + 1))

gaussian_filter1d(a) == [i \in 1..Len(a) |-> FilterTap(a, i, 1)]

\* np.convolve(a, np.ones(w) / w, mode='same') for Len(a) >= w
RECURSIVE WindowSum(_, _, _)
WindowSum(a, lo, hi) ==
    IF lo > hi THEN Zero
    ELSE FAdd(IF lo >= 1 /\ lo <= Len(a) THEN a[lo] ELSE Zero,
              WindowSum(a, lo + 1, hi))

MovingAverage(a, w) ==
    [i \in 1..Len(a) |->
        FDiv(WindowSum(a, i + (w - 1) \div 2 - (w - 1), i + (w - 1) \div 2),
             Fin(w * Scale))]

\* the largest finite double (s = 1) and its negative (s = -1), which
\* np.nan_to_num puts for an infinity when no posinf/neginf is given
FloatMax(s) == [k |-> "max", v |-> s]

\* np.nan_to_num(x, nan=n, posinf=p, neginf=m)
nan_to_num(x, n, p, m) ==
    IF IsNaN(x) THEN n ELSE IF IsInf(x) THEN (IF x.v > 0 THEN p ELSE m) ELSE x

\* ------------------------------------------ services/explainer.py
VAdd(a, b) == [i \in 1..Len(a) |-> FAdd(a[i], b[i])]
VSub(a, b) == [i \in 1..Len(a) |-> FSub(a[i], b[i])]
VScale(a, c) == [i \in 1..Len(a) |-> FMul(a[i], c)]
VAbsDev(a, c) == [i \in 1..Len(a) |-> FAbs(FSub(a[i], c))]

RECURSIVE Pow09(_)
Pow09(i) == IF i = 0 THEN One ELSE FMul(Fin(900000), Pow09(i - 1))

\* gaussian_weights of lines 103-112 (and 160-166) for one region
RegionWeights(time_array, region) ==
    LET center_idx == (region.start_index + region.end_index) \div 2
        center_time == time_array[center_idx + 1]
        width == Fin((region.end_index - region.start_index) * 1500000)
    IN  [j \in 1..Len(time_array) |->
            GaussianWeight(FDiv(FAbs(FSub(time_array[j], center_time)),
                                FMul(width, Fin(150000))))]

\* the loop of lines 97-116 from region i (0-based) on
RECURSIVE AddTransitBumps(_, _, _, _, _)
AddTransitBumps(feature_importance, time_array, confidence, transit_regions, i) ==
    IF i = Len(transit_regions) THEN feature_importance
    ELSE LET region == transit_regions[i + 1]
             importance_scale ==
                 FMul(PyMin(FMul(FMul(region.depth, Fin(600 * Scale)), confidence),
                            Fin(800000)),
                      Pow09(i))
         IN  AddTransitBumps(
                 VAdd(feature_importance,
                      VScale(RegionWeights(time_array, region), importance_scale)),
                 time_array, confidence, transit_regions, i + 1)

\* the loop of lines 157-169 from region i (0-based) on
RECURSIVE SubtractDipBumps(_, _, _, _, _)
SubtractDipBumps(feature_importance, time_array, confidence, transit_regions, i) ==
    IF i = Len(transit_regions) THEN feature_importance
    ELSE SubtractDipBumps(
             VSub(feature_importance,
                  VScale(RegionWeights(time_array, transit_regions[i + 1]),
                         FMul(Fin(200000), confidence))),
             time_array, confidence, transit_regions, i + 1)

\* np.random.seed(42); np.random.normal(0, 0.01, n_points)
BackgroundNoise(n_points) == RandomNormal(Seeded(42), 0, 10000, n_points)

\* feature_importance at line 126, label exoplanet
ExoplanetImportance(flux_array, time_array, confidence, transit_regions) ==
    LET bumped == AddTransitBumps(BackgroundNoise(Len(flux_array)), time_array,
                                  confidence, transit_regions, 0)
        baseline_stability ==
            [i \in 1..Len(flux_array) |-> FSub(One, FAbs(FSub(flux_array[i], One)))]
        stable == VAdd(bumped,
                       VScale(baseline_stability, FMul(Fin(20000), confidence)))
        flux_noise == VAbsDev(flux_array, NpMedian(flux_array))
        threshold == NpPercentile(flux_noise, 80)
    IN  [i \in 1..Len(flux_array) |->
            IF FGt(flux_noise[i], threshold)
            THEN FSub(stable[i], FMul(Fin(50000), confidence))
            ELSE stable[i]]

\* normalized_variance of lines 135-141
NormalizedVariance(flux_array) ==
    LET flux_variance == VAbsDev(flux_array, NpMean(flux_array))
        max_var == NpMax(flux_variance)
    IN  IF FGt(max_var, Zero)   \* max_var > 1e-10: below one unit of Scale
        THEN [i \in 1..Len(flux_array) |-> FDiv(flux_variance[i], max_var)]
        ELSE [i \in 1..Len(flux_array) |-> Zero]

Max(a, b) == IF a > b THEN a ELSE b

\* feature_importance at line 176, label no_planet
NoPlanetImportance(flux_array, time_array, confidence, transit_regions) ==
    LET n_points == Len(flux_array)
        window_size == Max(3, n_points \div 50)
        smoothed_variance == MovingAverage(NormalizedVariance(flux_array),
                                           window_size)
        varied == VAdd(BackgroundNoise(n_points),
                       VScale(smoothed_variance, FMul(Fin(400000), confidence)))
        dipped == SubtractDipBumps(varied, time_array, confidence,
                                   transit_regions, 0)
        median == NpMedian(flux_array)
        stability ==
            [i \in 1..n_points |-> FSub(One, FAbs(FSub(flux_array[i], median)))]
        total == VAdd(dipped, VScale(stability, FMul(Fin(10000), confidence)))
    IN  [i \in 1..n_points |-> NpClip(total[i], Fin(-800000), Fin(800000))]

\* feature_importance before the smoothing of line 183
RawImportance(flux_array, time_array, classification, confidence, transit_regions) ==
    IF classification = "exoplanet"
    THEN ExoplanetImportance(flux_array, time_array, confidence, transit_regions)
    ELSE NoPlanetImportance(flux_array, time_array, confidence, transit_regions)

\* lines 186-188: rescale to a maximum of 0.6 when max_abs > 0
Rescale(feature_importance) ==
    LET max_abs == NpMax([i \in 1..Len(feature_importance) |->
                             FAbs(feature_importance[i])])
    IN  IF FGt(max_abs, Zero)
        THEN [i \in 1..Len(feature_importance) |->
                 FMul(FDiv(feature_importance[i], max_abs), Fin(600000))]
        ELSE feature_importance

\* line 191
SanitizeImportance(feature_importance) ==
    [i \in 1..Len(feature_importance) |->
        nan_to_num(feature_importance[i], Zero, Fin(600000), Fin(-600000))]

\* the candidate region closed at index region_end (lines 241-254)
TopRegion(feature_importance, time_points, region_start, region_end) ==
    LET run == SubSeq(feature_importance, region_start + 1, region_end)
        importance == nan_to_num(NpMean(run), Zero, FloatMax(1), FloatMax(-1))
    IN  [start_time |-> nan_to_num(time_points[region_start + 1], Zero,
                                   FloatMax(1), FloatMax(-1)),
         end_time |-> nan_to_num(time_points[region_end], Zero,
                                 FloatMax(1), FloatMax(-1)),
         importance |-> importance,
         contribution_percent |->
             IF importance.k = "max" THEN PInf
             ELSE FMul(FAbs(importance), Fin(100 * Scale))]

\* the scan of lines 236-255 from index i (0-based) on
RECURSIVE ScanImportant(_, _, _, _, _, _, _)
ScanImportant(i, important_mask, feature_importance, time_points, in_region, region_start, regions) ==
    IF i = Len(important_mask) THEN regions
    ELSE IF important_mask[i + 1] /\ ~in_region
    THEN ScanImportant(i + 1, important_mask, feature_importance, time_points,
                       TRUE, i, regions)
    ELSE IF ~important_mask[i + 1] /\ in_region
    THEN ScanImportant(i + 1, important_mask, feature_importance, time_points,
                       FALSE, region_start,
                       Append(regions,
                              TopRegion(feature_importance, time_points,
                                        region_start, i)))
    ELSE ScanImportant(i + 1, important_mask, feature_importance, time_points,
                       in_region, region_start, regions)

\* regions.sort(key=abs(importance), reverse=True): stable, largest first
RECURSIVE InsertByImportance(_, _)
InsertByImportance(sorted, r) ==
    IF sorted = <<>> THEN <<r>>
    ELSE IF FGt(FAbs(r.importance), FAbs(Head(sorted).importance))
    THEN <<r>> \o sorted
    ELSE <<Head(sorted)>> \o InsertByImportance(Tail(sorted), r)

RECURSIVE SortByImportance(_, _)
SortByImportance(regions, i) ==
    IF i = 0 THEN <<>>
    ELSE InsertByImportance(SortByImportance(regions, i - 1), regions[i])

\* regions[:top_k] without the cut
Take_all(seq, k) == seq

\* regions[:top_k]
Take(seq, k) == SubSeq(seq, 1, IF Len(seq) < k THEN Len(seq) ELSE k)

\* important_mask of lines 226-230
ImportantMask(feature_importance) ==
    LET abs_importance ==
            [i \in 1..Len(feature_importance) |-> FAbs(feature_importance[i])]
        threshold == NpPercentile(abs_importance, 80)
    IN  [i \in 1..Len(feature_importance) |-> FGt(abs_importance[i], threshold)]

\* the list regions as the loop of lines 232-255 leaves it
CandidateRegions(feature_importance, time_points) ==
    ScanImportant(0, ImportantMask(feature_importance), feature_importance,
                  time_points, FALSE, 0, <<>>)

\* lines 258-259
TopOf(regions, top_k) == Take(SortByImportance(regions, Len(regions)), top_k)

_identify_top_regions(feature_importance, time_points, top_k) ==
    TopOf(CandidateRegions(feature_importance, time_points), top_k)

\* The sentence _generate_explanation builds, as the template chosen and the
\* values it is filled with (cites: the top region's span and percentage).
Explanation(template, confidence, n_transits, cites, top_region) ==
    [template |-> template, confidence |-> confidence,
     n_transits |-> n_transits, cites |-> cites,
     start_time |-> IF cites THEN top_region.start_time ELSE Zero,
     end_time |-> IF cites THEN top_region.end_time ELSE Zero,
     contribution_percent |->
         IF cites THEN top_region.contribution_percent ELSE Zero]

\* _generate_explanation without the branch of lines 277-278
_generate_explanation_counted(classification, confidence, top_regions, transit_regions) ==
    LET has_top == top_regions # <<>>
        top_region == IF has_top THEN top_regions[1] ELSE <<>>
        positive == has_top /\ FGt(top_region.importance, Zero)
    IN  IF classification = "exoplanet"
        THEN Explanation("exoplanet, based on transit events", confidence,
                         Len(transit_regions), positive, top_region)
        ELSE IF has_top
             THEN IF positive
                  THEN Explanation("no planet, high noise/variability",
                                   confidence, -1, TRUE, top_region)
                  ELSE Explanation("no planet, suspicious dips insufficient",
                                   confidence, -1, TRUE, top_region)
             ELSE Explanation("no planet, lack of periodic transit patterns",
                              confidence, -1, FALSE, top_region)

_generate_explanation(classification, confidence, top_regions, transit_regions) ==
    LET has_top == top_regions # <<>>
        top_region == IF has_top THEN top_regions[1] ELSE <<>>
        positive == has_top /\ FGt(top_region.importance, Zero)
    IN  IF classification = "exoplanet"
        THEN IF transit_regions = <<>>
             THEN Explanation("exoplanet, no clear transit regions", confidence,
                              -1, FALSE, top_region)
             ELSE Explanation("exoplanet, based on transit events", confidence,
                              Len(transit_regions), positive, top_region)
        ELSE IF has_top
             THEN IF positive
                  THEN Explanation("no planet, high noise/variability",
                                   confidence, -1, TRUE, top_region)
                  ELSE Explanation("no planet, suspicious dips insufficient",
                                   confidence, -1, TRUE, top_region)
             ELSE Explanation("no planet, lack of periodic transit patterns",
                              confidence, -1, FALSE, top_region)

\* _generate_synthetic_shap, which explain_prediction returns unchanged
_generate_synthetic_shap(light_curve, time_points, classification, confidence, transit_regions) ==
    LET raw == RawImportance(light_curve, time_points, classification,
                             confidence, transit_regions)
        predicted_value == FAdd(Fin(500000), NpMean(raw))
        feature_importance ==
            SanitizeImportance(Rescale(gaussian_filter1d(raw)))
        top_regions == _identify_top_regions(feature_importance, time_points, 5)
    IN  [feature_importance |-> feature_importance,
         top_contributing_regions |-> top_regions,
         explanation_summary |->
             _generate_explanation(classification, confidence, top_regions,
                                   transit_regions),
         base_value |-> Fin(500000),
         predicted_value |->
             nan_to_num(NpClip(predicted_value, Zero, One), Fin(500000),
                        FloatMax(1), FloatMax(-1))]

explain_prediction(light_curve, time_points, classification, confidence, transit_regions) ==
    _generate_synthetic_shap(light_curve, time_points, classification,
                             confidence, transit_regions)

\* ------------------------------------------ services/prediction.py
\* transit_depth=0.01, the fallback of line 77 and the default of line 37
DefaultDepth == Fin(10000)
\* num_points the generators default to (1000 in the source), scaled down so
\* that whole light curves can be enumerated.
NumPoints == 16
\* hash randomisation seeds a process may start with: 0..MaxSeed
MaxSeed == 1

\* Python values as _sanitize_floats tells them apart: floats are the records
\* above, and the rest is tagged str, int, none, dict, list or object (an
\* instance of a pydantic model, which is neither a dict nor a list).
PyStr(x) == [k |-> "str", v |-> x]
PyInt(x) == [k |-> "int", v |-> x]
PyDict(fields) == [k |-> "dict", v |-> fields]
PyList(items) == [k |-> "list", v |-> items]
PyObject(cls, fields) == [k |-> "object", cls |-> cls, v |-> fields]
IsFloat(x) == x.k \in {"fin", "nan", "inf"}
\* the finite floats 1e10 (s = 1) and -1e10 (s = -1), beyond the fixed point
Sentinel(s) == [k |-> "e10", v |-> s]

\* The catalog data/samples.json.  Its first three entries are the samples
\* the specification describes; the others carry ids main.py names, with
\* parameters that exercise the remaining paths (a transit inside the scaled
\* window, each anomaly type, a radius recorded as NaN).
Params(has, period_days, transit_duration, planet_radius, anomaly_type) ==
    [has |-> has, period_days |-> period_days, transit_depth |-> DefaultDepth,
     transit_duration |-> transit_duration, planet_radius |-> planet_radius,
     anomaly_type |-> anomaly_type]

samples_db ==
    << [id |-> "kepler-186f", name |-> "Kepler-186f", truth |-> "confirmed",
        params |-> Params({"period_days", "transit_duration", "planet_radius"},
                          <<130, 1>>, <<2, 1>>, Fin(1100000), "")],
       [id |-> "koi-5123", name |-> "KOI-5123", truth |-> "candidate",
        params |-> Params({}, <<1, 1>>, <<1, 1>>, None, "")],
       [id |-> "eb-001", name |-> "EB-001", truth |-> "false_positive",
        params |-> Params({"anomaly_type"}, <<1, 1>>, <<1, 1>>, None,
                          "eclipsing_binary")],
       [id |-> "trappist-1e", name |-> "TRAPPIST-1e", truth |-> "confirmed",
        params |-> Params({"period_days", "transit_duration", "planet_radius"},
                          <<4, 5>>, <<1, 1>>, Fin(920000), "")],
       [id |-> "koi-8888", name |-> "KOI-8888", truth |-> "candidate",
        params |-> Params({"planet_radius"}, <<1, 1>>, <<1, 1>>, NaN, "")],
       [id |-> "var-002", name |-> "VAR-002", truth |-> "false_positive",
        params |-> Params({"anomaly_type"}, <<1, 1>>, <<1, 1>>, None,
                          "stellar_variability")],
       [id |-> "noise-003", name |-> "NOISE-003", truth |-> "false_positive",
        params |-> Params({}, <<1, 1>>, <<1, 1>>, None, "")] >>

CatalogIds == {samples_db[i].id : i \in 1..Len(samples_db)}

\* params.get(key, default) and params.get(key)
Get(params, key, default) == IF key \in params.has THEN params[key] ELSE default
GetFloat(params, key) == IF key \in params.has THEN params[key] ELSE None
GetRatio(params, key) ==
    IF key \in params.has THEN RatToFloat(params[key]) ELSE None

\* next((s for s in self.samples_db if s["id"] == sample_id), None), as the
\* index of the entry, or 0 for None
Lookup(sample_id) ==
    IF \E i \in 1..Len(samples_db) : samples_db[i].id = sample_id
    THEN CHOOSE i \in 1..Len(samples_db) :
            /\ samples_db[i].id = sample_id
            /\ \A j \in 1..(i - 1) : samples_db[j].id # sample_id
    ELSE 0

\* Python's hash() of a str is a keyed hash whose key the interpreter draws as
\* it starts: a function of the process's seed and the string, standing here
\* for any such function.
StrHash(seed, sample_id) ==
    (((Lookup(sample_id) * 7919 + 104729) * (seed * seed + seed + 41)) % 1009) - 504

\* the rule with the confirmed confidence spread over 90-98%
Resolve_upto98(truth, h) ==
    IF truth = "confirmed"
    THEN [classification |-> "exoplanet",
          confidence |-> Fin(900000 + (h % 9) * 10000)]
    ELSE IF truth = "candidate"
    THEN LET candidate_hash == h % 100
         IN  IF candidate_hash < 70
             THEN [classification |-> "exoplanet",
                   confidence |-> Fin(600000 + (candidate_hash % 20) * 10000)]
             ELSE [classification |-> "no_planet",
                   confidence |-> Fin(550000 + (candidate_hash % 15) * 10000)]
    ELSE [classification |-> "no_planet",
          confidence |-> Fin(850000 + (h % 12) * 10000)]

\* lines 73-105: classification and confidence from truth and hash(id)
Resolve(truth, h) ==
    IF truth = "confirmed"
    THEN [classification |-> "exoplanet",
          confidence |-> Fin(900000 + (h % 8) * 10000)]
    ELSE IF truth = "candidate"
    THEN LET candidate_hash == h % 100
         IN  IF candidate_hash < 70
             THEN [classification |-> "exoplanet",
                   confidence |-> Fin(600000 + (candidate_hash % 20) * 10000)]
             ELSE [classification |-> "no_planet",
                   confidence |-> Fin(550000 + (candidate_hash % 15) * 10000)]
    ELSE [classification |-> "no_planet",
          confidence |-> Fin(850000 + (h % 12) * 10000)]

\* the probabilities with the confidence always under exoplanet
ClassProbabilities_swapped(classification, confidence) ==
    [exoplanet |-> confidence, no_planet |-> FSub(One, confidence)]

\* lines 107-117
ClassProbabilities(classification, confidence) ==
    IF classification = "exoplanet"
    THEN [exoplanet |-> confidence, no_planet |-> FSub(One, confidence)]
    ELSE [exoplanet |-> FSub(One, confidence), no_planet |-> confidence]

\* the sigma of the noise the generator for this truth label draws
NoiseSigma(sample) ==
    IF sample.truth = "confirmed" THEN 500
    ELSE IF sample.truth = "candidate" THEN 3000
    ELSE FalsePositiveSigma(Get(sample.params, "anomaly_type", "noise"))

\* lines 73-103: the light curve for the sample's truth label
GenerateFor(sample, noise) ==
    IF sample.truth = "confirmed"
    THEN generate_confirmed_planet(
             Get(sample.params, "period_days", <<10, 1>>),
             Get(sample.params, "transit_depth", DefaultDepth),
             Get(sample.params, "transit_duration", <<3, 1>>),
             NumPoints,
             GetFloat(sample.params, "planet_radius"),
             noise)
    ELSE IF sample.truth = "candidate"
    THEN generate_candidate(NumPoints, noise)
    ELSE generate_false_positive(
             NumPoints, Get(sample.params, "anomaly_type", "noise"), noise)

TransitRegionObject(r) ==
    PyObject("TransitRegion",
             [start_index |-> PyInt(r.start_index),
              end_index |-> PyInt(r.end_index), depth |-> r.depth])

\* SHAPExplanation(**shap_data)
SHAPExplanationObject(shap_data) ==
    PyObject("SHAPExplanation",
             [feature_importance |-> PyList(shap_data.feature_importance),
              top_contributing_regions |->
                  PyList([i \in 1..Len(shap_data.top_contributing_regions) |->
                             PyDict(shap_data.top_contributing_regions[i])]),
              explanation_summary |-> PyStr(shap_data.explanation_summary),
              base_value |-> shap_data.base_value,
              predicted_value |-> shap_data.predicted_value])

\* the dict of lines 128-146
ResultDict(sample, gen, res, shap_data) ==
    PyDict(
        [classification |-> PyStr(res.classification),
         confidence_score |-> res.confidence,
         class_probabilities |->
             PyDict(ClassProbabilities(res.classification, res.confidence)),
         light_curve_data |-> PyList(gen.flux),
         time_points |-> PyList(gen.time),
         highlighted_regions |->
             PyList([i \in 1..Len(gen.transit_regions) |->
                        TransitRegionObject(gen.transit_regions[i])]),
         analysis |->
             PyObject("AnalysisMetadata",
                      [orbital_period |-> GetRatio(sample.params, "period_days"),
                       transit_duration |->
                           GetRatio(sample.params, "transit_duration"),
                       planet_radius |-> GetFloat(sample.params, "planet_radius"),
                       star_name |-> PyStr(sample.name),
                       discovery_method |-> PyStr("Transit")]),
         shap_explanation |-> SHAPExplanationObject(shap_data),
         model_version |-> PyStr("CosmicNet-v1.0")])

\* lines 107-146, from the light curve gen and the resolved label res on
ExplainAndAssemble(sample, gen, res) ==
    IF gen.raised # "" THEN [raised |-> gen.raised, result |-> PyDict(<<>>)]
    ELSE [raised |-> "",
          result |-> ResultDict(
              sample, gen, res,
              explain_prediction(gen.flux, gen.time, res.classification,
                                 res.confidence, gen.transit_regions))]

\* _predict_synthetic (h is hash(sample["id"]))
_predict_synthetic(sample, h, noise) ==
    ExplainAndAssemble(sample, GenerateFor(sample, noise),
                       Resolve(sample.truth, h))

\* _sanitize_floats: dicts and lists are walked, floats replaced, and any
\* other value (a model object too) is returned as it is
RECURSIVE _sanitize_floats(_)
_sanitize_floats(data) ==
    IF data.k = "dict"
    THEN PyDict([key \in DOMAIN data.v |-> _sanitize_floats(data.v[key])])
    ELSE IF data.k = "list"
    THEN PyList([i \in 1..Len(data.v) |-> _sanitize_floats(data.v[i])])
    ELSE IF IsFloat(data)
    THEN (IF IsNaN(data) THEN Zero
          ELSE IF IsInf(data) THEN Sentinel(data.v)
          ELSE data)
    ELSE data

\* lines 54-61 for what _predict_synthetic returned or raised.
\* processing_time_ms is an int read off the clock, and stands as 0.
FinishPredict(out) ==
    IF out.raised # "" THEN out
    ELSE [raised |-> "",
          result |-> _sanitize_floats(
              PyDict([key \in DOMAIN out.result.v \cup {"processing_time_ms"} |->
                         IF key = "processing_time_ms" THEN PyInt(0)
                         ELSE out.result.v[key]]))]

\* predict: ValueError for an unknown id, else the sanitized result
predict(sample_id, h, noise) ==
    IF Lookup(sample_id) = 0
    THEN [raised |-> "ValueError", result |-> PyDict(<<>>)]
    ELSE FinishPredict(_predict_synthetic(samples_db[Lookup(sample_id)], h, noise))

\* ----------------------------------------------------------- main.py
\* the handlers without the ValueError clause: every exception becomes 500
HttpResponse_500(out) ==
    IF out.raised = "" THEN [status |-> 200, body |-> out.result]
    ELSE [status |-> 500, body |-> PyDict(<<>>)]

\* lines 63-68: the result, 404 for ValueError, 500 for any other exception
HttpResponse(out) ==
    IF out.raised = "" THEN [status |-> 200, body |-> out.result]
    ELSE IF out.raised = "ValueError" THEN [status |-> 404, body |-> PyDict(<<>>)]
    ELSE [status |-> 500, body |-> PyDict(<<>>)]

predict_exoplanet(sample_id, h, noise) ==
    HttpResponse(predict(sample_id, h, noise))

\* ------------------------------------------- direct calls of the generator
\* Arguments the entry points are exercised with.
Periods == {<<0, 1>>, <<1, 5>>, <<4, 5>>, <<7, 2>>, <<4, 1>>, <<49, 8>>, <<233, 4>>, <<130, 1>>}
Durations == {<<1, 1>>, <<2, 1>>, <<3, 1>>, <<54, 1>>}
Radii == {None, Fin(1100000), Fin(11 * Scale)}
AnomalyTypes == {"eclipsing_binary", "stellar_variability", "noise", "flare"}

\* A call of one of the three entry points, not yet returned.
GenCall(fn, period_days, transit_duration, planet_radius_earth, num_points, anomaly_type) ==
    [fn |-> fn, period_days |-> period_days, transit_depth |-> DefaultDepth,
     transit_duration |-> transit_duration,
     planet_radius_earth |-> planet_radius_earth, num_points |-> num_points,
     anomaly_type |-> anomaly_type]

GenCalls ==
    {GenCall("generate_confirmed_planet", p, d, r, n, "") :
        p \in Periods, d \in Durations, r \in Radii, n \in 0..MaxPoints}
    \cup {GenCall("generate_false_positive", <<1, 1>>, <<1, 1>>, None, n, a) :
            n \in 0..MaxPoints, a \in AnomalyTypes}
    \cup {GenCall("generate_candidate", <<1, 1>>, <<1, 1>>, None, n, "") :
            n \in 0..MaxPoints}

Pending == [raised |-> "pending", time |-> <<>>, flux |-> <<>>,
            transit_regions |-> <<>>]

InitGen ==
    /\ hashSeed = 0
    /\ rng = Unseeded
    /\ call \in GenCalls
    /\ ret = Pending

CallConfirmedPlanet ==
    /\ call.fn = "generate_confirmed_planet"
    /\ ret = Pending
    /\ \E pick \in 0..MaxEntropy :
        ret' = generate_confirmed_planet(
                   call.period_days, call.transit_depth, call.transit_duration,
                   call.num_points, call.planet_radius_earth,
                   RandomNormal(rng, pick, 500, call.num_points))
    /\ rng' = Advance(rng, call.num_points)
    /\ UNCHANGED <<hashSeed, call>>

CallFalsePositive ==
    /\ call.fn = "generate_false_positive"
    /\ ret = Pending
    /\ \E pick \in 0..MaxEntropy :
        ret' = generate_false_positive(
                   call.num_points, call.anomaly_type,
                   RandomNormal(rng, pick, FalsePositiveSigma(call.anomaly_type),
                                call.num_points))
    /\ rng' = Advance(rng, call.num_points)
    /\ UNCHANGED <<hashSeed, call>>

CallCandidate ==
    /\ call.fn = "generate_candidate"
    /\ ret = Pending
    /\ \E pick \in 0..MaxEntropy :
        ret' = generate_candidate(
                   call.num_points,
                   RandomNormal(rng, pick, 3000, call.num_points))
    /\ rng' = Advance(rng, call.num_points)
    /\ UNCHANGED <<hashSeed, call>>

NextGen == CallConfirmedPlanet \/ CallFalsePositive \/ CallCandidate

SpecGen == InitGen /\ [][NextGen]_vars

\* ------------------------------------------------ the resolver alone
\* hash(id) takes any value in -MaxHash..MaxHash
MaxHash == 120
Truths == {"confirmed", "candidate", "false_positive"}

InitResolve ==
    /\ hashSeed = 0
    /\ rng = Unseeded
    /\ call \in {[fn |-> "resolve", truth |-> t, h |-> h] :
                    t \in Truths, h \in (-MaxHash)..MaxHash}
    /\ ret = Pending

\* lines 73-117 for one truth label and one value of hash(id)
CallResolve ==
    /\ call.fn = "resolve"
    /\ ret = Pending
    /\ LET res == Resolve(call.truth, call.h)
       IN  ret' = [raised |-> "", classification |-> res.classification,
                   confidence |-> res.confidence,
                   class_probabilities |->
                       ClassProbabilities(res.classification, res.confidence)]
    /\ UNCHANGED <<hashSeed, rng, call>>

NextResolve == CallResolve

SpecResolve == InitResolve /\ [][NextResolve]_vars

\* ---------------------------------------------- the explainer alone
\* the samples 0..n-1 of the 1000-point grid np.linspace(0, 30, 1000)
FineGrid(n) == [i \in 1..n |-> RatToFloat(<<ObservationDays * (i - 1), 999>>)]

Region(start_index, end_index) ==
    [start_index |-> start_index, end_index |-> end_index, depth |-> Fin(6300)]

\* light curves: flat, one dip, and a noisy curve of the generator
ExplainFluxes ==
    { [i \in 1..NumPoints |-> One],
      [i \in 1..NumPoints |-> IF i \in 3..5 THEN Fin(990000) ELSE One],
      generate_candidate(NumPoints,
                         RandomNormal(Unseeded, 0, 3000, NumPoints)).flux }

ExplainTimes == {tolist(linspace(NumPoints)), FineGrid(NumPoints)}

\* region lists: none, one wide, one of a single sample, and both kinds
ExplainRegions ==
    { <<>>,
      <<Region(1, NumPoints - 1)>>,
      <<Region(NumPoints \div 2, NumPoints \div 2)>>,
      <<Region(0, 4), Region(NumPoints - 4, NumPoints - 4)>> }

ExplainConfidences == {Fin(550000), Fin(900000), Fin(970000)}

InitExplain ==
    /\ hashSeed = 0
    /\ rng = Unseeded
    /\ call \in {[fn |-> "explain_prediction", light_curve |-> f,
                  time_points |-> t, classification |-> c, confidence |-> p,
                  transit_regions |-> r] :
                    f \in ExplainFluxes, t \in ExplainTimes,
                    c \in {"exoplanet", "no_planet"},
                    p \in ExplainConfidences, r \in ExplainRegions}
    /\ ret = Pending

CallExplain ==
    /\ call.fn = "explain_prediction"
    /\ ret = Pending
    /\ ret' = [raised |-> "",
                shap |-> explain_prediction(
                             call.light_curve, call.time_points,
                             call.classification, call.confidence,
                             call.transit_regions)]
    /\ rng' = Advance(Seeded(42), Len(call.light_curve))
    /\ UNCHANGED <<hashSeed, call>>

NextExplain == CallExplain

SpecExplain == InitExplain /\ [][NextExplain]_vars

\* ------------------------------------- the depth selection alone
\* planet radii 0.0, 0.1, ... up to this many tenths of an Earth radius
MaxRadiusTenths == 40

DepthArguments == {Fin(100), Fin(400), DefaultDepth}
RadiusArguments == {None} \cup {Fin(k * 100000) : k \in 0..MaxRadiusTenths}

InitDepth ==
    /\ hashSeed = 0
    /\ rng = Unseeded
    /\ call \in {[fn |-> "transit_depth", transit_depth |-> d,
                  planet_radius_earth |-> r] :
                    d \in DepthArguments, r \in RadiusArguments}
    /\ ret = Pending

\* lines 46-54 of generate_confirmed_planet
CallDepth ==
    /\ call.fn = "transit_depth"
    /\ ret = Pending
    /\ ret' = [raised |-> "",
               transit_depth |-> EffectiveDepth(call.transit_depth,
                                                call.planet_radius_earth)]
    /\ UNCHANGED <<hashSeed, rng, call>>

NextDepth == CallDepth

SpecDepth == InitDepth /\ [][NextDepth]_vars

\* ------------------------------------ the top-region search alone
\* length of the importance arrays the search is applied to
TopLen == 31

\* An importance array with a peak of w samples every step samples from
\* index first on, over a background of base.
PeakArray(first, step, w, sign, shape, base) ==
    [j \in 1..TopLen |->
        IF j >= first /\ ((j - first) % step) < w
        THEN LET m == (j - first) \div step
                 height == IF shape = "flat" THEN 300000
                           ELSE IF shape = "rising" THEN 100000 + 10000 * j
                           ELSE 600000 - 10000 * j
                 sgn == IF sign = "neg" \/ (sign = "alt" /\ m % 2 = 1)
                        THEN -1 ELSE 1
             IN  Fin(sgn * height)
        ELSE Fin(base)]

TopInputs ==
    {PeakArray(first, step, w, sign, shape, base) :
        first \in 1..3, step \in 2..5, w \in 1..2,
        sign \in {"pos", "neg", "alt"},
        shape \in {"flat", "rising", "falling"}, base \in {0, 5000}}

InitTop ==
    /\ hashSeed = 0
    /\ rng = Unseeded
    /\ call \in {[fn |-> "_identify_top_regions", feature_importance |-> f,
                  time_points |-> tolist(linspace(TopLen)), top_k |-> 5] :
                    f \in TopInputs}
    /\ ret = Pending

\* _identify_top_regions, with the list regions it sorts and cuts
CallTop ==
    /\ call.fn = "_identify_top_regions"
    /\ ret = Pending
    /\ ret' = [raised |-> "",
               regions |-> CandidateRegions(call.feature_importance,
                                            call.time_points),
               top |-> _identify_top_regions(call.feature_importance,
                                             call.time_points, call.top_k)]
    /\ UNCHANGED <<hashSeed, rng, call>>

NextTop == CallTop

SpecTop == InitTop /\ [][NextTop]_vars

\* --------------------------------------------------------- the service
\* ids a request may carry that the catalog does not hold
UnknownIds == {"kepler-22b", ""}

NoCall == [fn |-> "none", sample_id |-> ""]
NoResponse == [status |-> 0, body |-> PyDict(<<>>)]

\* The interpreter starts: it draws its hash seed, numpy's global generator
\* is seeded from the operating system, the catalog is loaded.
Init ==
    /\ hashSeed \in 0..MaxSeed
    /\ rng = Unseeded
    /\ call = NoCall
    /\ ret = NoResponse

\* POST /api/predict with this sample id, to the response
EntropyPicks == IF rng.kind = "os" THEN 0..MaxEntropy ELSE {0}

PostPredict(sample_id) ==
    \E pick \in EntropyPicks :
        LET i == Lookup(sample_id)
            noise == IF i = 0 THEN <<>>
                     ELSE RandomNormal(rng, pick, NoiseSigma(samples_db[i]),
                                       NumPoints)
        IN  \E response \in {predict_exoplanet(sample_id,
                                  StrHash(hashSeed, sample_id), noise)} :
                /\ call' = [fn |-> "predict", sample_id |-> sample_id]
                /\ ret' = response
                /\ rng' = IF response.status = 200
                          THEN Advance(Seeded(42), NumPoints)
                          ELSE IF response.status = 404 THEN rng
                          ELSE Advance(rng, NumPoints)
                /\ UNCHANGED hashSeed

\* The service process is stopped and started again; the client keeps the
\* last response it received.
Restart ==
    /\ hashSeed' \in 0..MaxSeed
    /\ rng' = Unseeded
    /\ UNCHANGED <<call, ret>>

Next ==
    \/ \E sample_id \in CatalogIds \cup UnknownIds : PostPredict(sample_id)
    \/ Restart

Spec == Init /\ [][Next]_vars

\* ------------------------------------------------------------ claims
Returned(fn) == call.fn = fn /\ ret.raised = ""

\* C1: every region generate_confirmed_planet returns for period_days > 0
\* satisfies 0 <= start_index <= end_index < num_points, and the regions are
\* pairwise non-overlapping and in strictly increasing start_index order.
C1_RegionsWellFormed ==
    (Returned("generate_confirmed_planet") /\ call.period_days[1] > 0) =>
        LET regs == ret.transit_regions
        IN  /\ \A j \in 1..Len(regs) :
                /\ 0 <= regs[j].start_index
                /\ regs[j].start_index <= regs[j].end_index
                /\ regs[j].end_index < call.num_points
            /\ \A j \in 1..Len(regs), k \in 1..Len(regs) :
                j < k => /\ regs[j].end_index < regs[k].start_index
                         /\ regs[j].start_index < regs[k].start_index

\* a call that returned two regions, more than MergeGap samples apart
C1_Witness ==
    /\ Returned("generate_confirmed_planet")
    /\ call.period_days[1] > 0
    /\ Len(ret.transit_regions) >= 2
    /\ ret.transit_regions[1].end_index + MergeGap < ret.transit_regions[2].start_index

IsGenerator(fn) ==
    fn \in {"generate_confirmed_planet", "generate_false_positive",
            "generate_candidate"}

TimeFluxShape ==
    /\ Len(ret.time) = call.num_points
    /\ Len(ret.flux) = call.num_points
    /\ \A i \in 1..(Len(ret.time) - 1) : FLt(ret.time[i], ret.time[i + 1])

\* C2 as stated: time and flux have num_points entries, time is strictly
\* increasing, and every time value lies in the half-open interval [0, 30).
C2_TimeHalfOpen ==
    (IsGenerator(call.fn) /\ ret.raised = "") =>
        /\ TimeFluxShape
        /\ \A i \in 1..Len(ret.time) :
            FLe(Zero, ret.time[i]) /\ FLt(ret.time[i], Fin(ObservationDays * Scale))

\* C2 amended: time and flux have num_points entries, time is strictly
\* increasing over the closed interval [0, 30]; the first sample is at 0 and,
\* from two samples on, the last sample is at exactly 30.
C2_TimeClosed ==
    (IsGenerator(call.fn) /\ ret.raised = "") =>
        /\ TimeFluxShape
        /\ \A i \in 1..Len(ret.time) :
            FLe(Zero, ret.time[i]) /\ FLe(ret.time[i], Fin(ObservationDays * Scale))
        /\ call.num_points >= 1 => ret.time[1] = Zero
        /\ call.num_points >= 2 =>
            ret.time[call.num_points] = Fin(ObservationDays * Scale)

C2_Witness ==
    /\ Returned("generate_false_positive")
    /\ call.num_points = MaxPoints
    /\ ret.time[MaxPoints] = Fin(ObservationDays * Scale)

Resolved == call.fn = "resolve" /\ ret.raised = ""
InRange(x, lo, hi) == FLe(Fin(lo), x) /\ FLe(x, Fin(hi))

\* C3: the resolver follows the reference rule for every truth label and
\* every value of hash(id): confirmed gives exoplanet with confidence
\* 0.90 + (hash mod 8)/100 within [0.90, 0.97]; false_positive gives no_planet
\* with 0.85 + (hash mod 12)/100 within [0.85, 0.96]; candidate, with
\* h = hash mod 100, gives exoplanet with 0.60 + (h mod 20)/100 when h < 70
\* and no_planet with 0.55 + (h mod 15)/100 otherwise; the confidence is
\* always within [0, 1].
C3_ReferenceRule ==
    Resolved =>
        LET c == ret.confidence
            h == call.h % 100
        IN  /\ call.truth = "confirmed" =>
                /\ ret.classification = "exoplanet"
                /\ c = Fin(10000 * (90 + (call.h % 8)))
                /\ InRange(c, 900000, 970000)
            /\ call.truth = "false_positive" =>
                /\ ret.classification = "no_planet"
                /\ c = Fin(10000 * (85 + (call.h % 12)))
                /\ InRange(c, 850000, 960000)
            /\ (call.truth = "candidate" /\ h < 70) =>
                /\ ret.classification = "exoplanet"
                /\ c = Fin(10000 * (60 + (h % 20)))
            /\ (call.truth = "candidate" /\ h >= 70) =>
                /\ ret.classification = "no_planet"
                /\ c = Fin(10000 * (55 + (h % 15)))
            /\ InRange(c, 0, Scale)

\* a confirmed sample whose negative hash gives the top of the range
C3_Witness ==
    /\ Resolved
    /\ call.truth = "confirmed"
    /\ call.h < 0
    /\ ret.confidence = Fin(970000)

Other(classification) ==
    IF classification = "exoplanet" THEN "no_planet" ELSE "exoplanet"

\* C4: class_probabilities has exactly the keys exoplanet and no_planet; the
\* predicted label maps to the confidence and the other label to
\* 1 - confidence; both lie in [0, 1] and they sum to 1.0.
C4_ProbabilitiesComplement ==
    Resolved =>
        LET probs == ret.class_probabilities
        IN  /\ DOMAIN probs = {"exoplanet", "no_planet"}
            /\ probs[ret.classification] = ret.confidence
            /\ probs[Other(ret.classification)] = FSub(One, ret.confidence)
            /\ InRange(probs.exoplanet, 0, Scale)
            /\ InRange(probs.no_planet, 0, Scale)
            /\ FAdd(probs.exoplanet, probs.no_planet) = One

\* a candidate resolved to no_planet at 0.69, leaving 0.31 for exoplanet
C4_Witness ==
    /\ Resolved
    /\ ret.classification = "no_planet"
    /\ ret.class_probabilities.no_planet = Fin(690000)
    /\ ret.class_probabilities.exoplanet = Fin(310000)

Succeeded == call.fn = "predict" /\ ret.status = 200
Body(key) == ret.body.v[key]
Truth(sample_id) == samples_db[Lookup(sample_id)].truth

\* C5 as stated: for a fixed sample id the resolved label and confidence are
\* the same on every predict call, within one run of the service process and
\* from one run to the next.
C5_SameAcrossRuns ==
    [][(/\ call.fn = "predict" /\ ret.status = 200
        /\ call'.fn = "predict" /\ ret'.status = 200
        /\ call'.sample_id = call.sample_id)
       => /\ ret'.body.v["classification"] = ret.body.v["classification"]
          /\ ret'.body.v["confidence_score"] = ret.body.v["confidence_score"]]_vars

\* C6: a predict request whose id matches no catalog entry is answered 404
\* with no result object, and nothing was generated, resolved or explained:
\* the random generator and the process are as they were.
C6_UnknownIdNotFound ==
    [][(/\ call'.fn = "predict"
        /\ call'.sample_id \notin CatalogIds
        /\ (call' # call \/ ret' # ret))
       => /\ ret' = [status |-> 404, body |-> PyDict(<<>>)]
          /\ rng' = rng
          /\ hashSeed' = hashSeed]_vars

\* an unknown id asked for after a prediction had seeded the generator
C6_Witness ==
    /\ call = [fn |-> "predict", sample_id |-> "kepler-22b"]
    /\ ret.status = 404
    /\ rng.kind = "seeded"

\* C7 as stated: the prediction for kepler-186f (confirmed, period 130 days,
\* duration 2 hours, radius 1.1) is exoplanet with confidence within
\* [0.90, 0.97] and a non-empty highlighted_regions list.
C7_Kepler186f ==
    (Succeeded /\ call.sample_id = "kepler-186f") =>
        /\ Body("classification") = PyStr("exoplanet")
        /\ InRange(Body("confidence_score"), 900000, 970000)
        /\ Body("highlighted_regions").v # <<>>

\* C8: every prediction for a false_positive sample, whatever its anomaly
\* type, is no_planet with an empty highlighted_regions list, the generator
\* having returned no transit region.
C8_FalsePositiveNoRegions ==
    (Succeeded /\ Truth(call.sample_id) = "false_positive") =>
        /\ Body("classification") = PyStr("no_planet")
        /\ Body("highlighted_regions") = PyList(<<>>)

\* the eclipsing binary predicted, its dips in the curve and no region
C8_Witness ==
    /\ Succeeded
    /\ call.sample_id = "eb-001"
    /\ \E i \in 1..NumPoints : FLt(Body("light_curve_data").v[i], Fin(980000))
    /\ Body("highlighted_regions") = PyList(<<>>)

Explained == call.fn = "explain_prediction" /\ ret.raised = ""

\* C9 as stated: feature_importance has one entry per light-curve sample, no
\* entry is NaN or infinite, and the largest absolute entry is at most 0.6,
\* exactly 0.6 unless the array is all zero; also for region lists holding a
\* region with start_index = end_index.
C9_ImportanceNormalised ==
    Explained =>
        LET fi == ret.shap.feature_importance
        IN  /\ Len(fi) = Len(call.light_curve)
            /\ \A i \in 1..Len(fi) :
                IsFinite(fi[i]) /\ FLe(FAbs(fi[i]), Fin(600000))
            /\ (\E i \in 1..Len(fi) : fi[i] # Zero) =>
                \E i \in 1..Len(fi) : FAbs(fi[i]) = Fin(600000)

\* every float of a Python value, nested model objects included, is finite
RECURSIVE AllFinite(_)
AllFinite(data) ==
    IF data.k \in {"dict", "object"}
    THEN \A key \in DOMAIN data.v : AllFinite(data.v[key])
    ELSE IF data.k = "list"
    THEN \A i \in 1..Len(data.v) : AllFinite(data.v[i])
    ELSE ~IsNaN(data) /\ ~IsInf(data)

\* C10 as stated: every float in the object predict returns is finite, the
\* floats nested in highlighted_regions, analysis and shap_explanation
\* included.
C10_AllFloatsFinite == Succeeded => AllFinite(ret.body)

\* C11 as stated: a call of explain_prediction leaves the process-wide
\* random generator as it found it.
C11_GeneratorUntouched ==
    [][call.fn = "explain_prediction" => rng' = rng]_vars

\* the noise vectors the generator may draw for catalog entry i in the
\* current state of the random generator
NextNoises(i) ==
    {RandomNormal(rng, pick, NoiseSigma(samples_db[i]), NumPoints) :
        pick \in EntropyPicks}

\* C12 as stated: whatever predictions have completed in this process, the
\* noise the generator draws in the next prediction comes from an unseeded
\* source and is not determined by the earlier calls: more than one noise
\* vector, hence more than one flux sequence, remains possible.
C12_NoiseNotForced ==
    \A i \in 1..Len(samples_db) : Cardinality(NextNoises(i)) > 1

Searched == call.fn = "_identify_top_regions" /\ ret.raised = ""

\* C13: top_contributing_regions has at most 5 entries, is ordered by
\* non-increasing absolute importance, and each entry's contribution_percent
\* is the absolute value of its importance times 100.
C13_TopRegionsOrdered ==
    Searched =>
        /\ Len(ret.top) <= 5
        /\ \A j \in 1..Len(ret.top), k \in 1..Len(ret.top) :
            j < k => FLe(FAbs(ret.top[k].importance), FAbs(ret.top[j].importance))
        /\ \A j \in 1..Len(ret.top) :
            ret.top[j].contribution_percent.v = 100 * Abs(ret.top[j].importance.v)

\* more than five regions recorded, of both signs, and five of them kept
C13_Witness ==
    /\ Searched
    /\ Len(ret.regions) > 5
    /\ Len(ret.top) = 5
    /\ \E j \in 1..5 : ret.top[j].importance.v < 0
    /\ FLt(FAbs(ret.top[5].importance), FAbs(ret.top[1].importance))

\* the maximal runs <<first, last>> (1-based) of indices the mask holds at
MaximalRuns(mask) ==
    {run \in (1..Len(mask)) \X (1..Len(mask)) :
        /\ run[1] <= run[2]
        /\ \A i \in run[1]..run[2] : mask[i]
        /\ run[1] = 1 \/ ~mask[run[1] - 1]
        /\ run[2] = Len(mask) \/ ~mask[run[2] + 1]}

\* the region recorded for this run: its first and last time, and the mean
\* signed importance over exactly the run
RecordedFor(run, region) ==
    /\ region.start_time = call.time_points[run[1]]
    /\ region.end_time = call.time_points[run[2]]
    /\ region.importance =
           NpMean(SubSeq(call.feature_importance, run[1], run[2]))

\* C15 as stated: _identify_top_regions records one candidate region for
\* every maximal run of indices whose absolute importance exceeds the
\* 80th-percentile threshold, a run reaching the last index included, with
\* the run's first and last time and the mean importance over the run.
C15_EveryRunRecorded ==
    Searched =>
        LET runs == MaximalRuns(ImportantMask(call.feature_importance))
        IN  /\ Len(ret.regions) = Cardinality(runs)
            /\ \A run \in runs :
                \E j \in 1..Len(ret.regions) : RecordedFor(run, ret.regions[j])

DepthChosen == call.fn = "transit_depth" /\ ret.raised = ""

\* (planet_radius_earth * 6371 / 696000)^2 in millionths, the radius given
\* in millionths of an Earth radius
RadiusRatioSquared(radius) ==
    LET ratio == ((radius \div 10000) * 63710) \div 696
    IN  (ratio * ratio) \div Scale

\* C14: with planet_radius_earth given, the transit_depth argument is ignored
\* and the depth used is (planet_radius_earth * 6371 / 696000)^2, multiplied
\* by 100 exactly when that depth is below 0.0005; without it the
\* transit_depth argument is used unchanged, never amplified.
C14_DepthFromRadius ==
    DepthChosen =>
        IF IsNone(call.planet_radius_earth)
        THEN ret.transit_depth = call.transit_depth
        ELSE LET computed == RadiusRatioSquared(call.planet_radius_earth.v)
             IN  ret.transit_depth =
                     Fin(IF computed < 500 THEN 100 * computed ELSE computed)

\* an Earth-sized planet: 0.000083 computed, 0.0083 used, 0.01 ignored
C14_Witness ==
    /\ DepthChosen
    /\ call.planet_radius_earth = One
    /\ call.transit_depth = DefaultDepth
    /\ ret.transit_depth = Fin(8300)

\* ---- C16 ----
\* the samples (1-based) whose returned flux is not the base flux plus the
\* noise drawn for them
Reduced(noise) == {i \in 1..Len(ret.flux) : ret.flux[i] # FAdd(One, noise[i])}

\* the samples inside some returned region, and the ends of the regions
Covered == {i \in 1..Len(ret.flux) : \E j \in 1..Len(ret.transit_regions) : ret.transit_regions[j].start_index < i /\ i <= ret.transit_regions[j].end_index + 1}
RegionEnds == UNION {{ret.transit_regions[j].start_index + 1, ret.transit_regions[j].end_index + 1} : j \in 1..Len(ret.transit_regions)}

\* the phase of sample i of the call
PhaseOf(i) == Phase(linspace(call.num_points)[i], call.period_days)

\* the samples whose phase p has 0.5 - before <= p < 0.5 + after, or
\* 0.5 - before < p when the window is open at its start
PhaseWindow(before, after, open) == {i \in 1..call.num_points : RLt(PhaseOf(i), RAdd(RHalf, after)) /\ (IF open THEN RLt(RSub(RHalf, before), PhaseOf(i)) ELSE RLe(RSub(RHalf, before), PhaseOf(i)))}

\* the flux is the base flux plus noise except at exactly the samples of w,
\* every sample of w lies in a region and every end of a region is in w
DippedExactly(w) ==
    /\ \E pick \in 0..MaxEntropy : Reduced(RandomNormal(Unseeded, pick, 500, call.num_points)) = w
    /\ w \subseteq Covered
    /\ RegionEnds \subseteq w

\* C16 as stated: with half-width = min(0.04, transit_duration / (period_days
\* * 24)), a sample of generate_confirmed_planet has its flux reduced, and is
\* counted into a transit region, if and only if
\* 0.5 - half-width <= phase < 0.5 + half-width.
C16_HalfWidthWindow ==
    Returned("generate_confirmed_planet") =>
        LET half == TransitWidth(call.period_days, call.transit_duration)
        IN  DippedExactly(PhaseWindow(half, half, FALSE))

\* C16 amended: with width = min(0.04, transit_duration / (period_days * 24)),
\* a sample of generate_confirmed_planet has its flux reduced, and is counted
\* into a transit region, if and only if
\* 0.5 - width / 2 < phase < 0.5 + width / 2.
C16_FullWidthOpenWindow ==
    Returned("generate_confirmed_planet") =>
        LET half == RMul(TransitWidth(call.period_days, call.transit_duration), RHalf)
        IN  DippedExactly(PhaseWindow(half, half, TRUE))

\* a call with a sample exactly at phase 0.5 - width / 2, left undipped, and
\* another sample dipped
C16_Witness ==
    /\ Returned("generate_confirmed_planet")
    /\ LET half == RMul(TransitWidth(call.period_days, call.transit_duration), RHalf)
       IN  /\ \E i \in 1..call.num_points : PhaseOf(i) = RSub(RHalf, half)
           /\ PhaseWindow(half, half, TRUE) # {}

\* ---- C17 ----
\* the in-transit samples (0-based) of a returned call that drew this noise
Dips(noise) == {i - 1 : i \in Reduced(noise)}

\* the dip applied to sample s (0-based)
DipAt(noise, s) == FSub(FAdd(One, noise[s + 1]), ret.flux[s + 1])

\* s opens a region when scanned: no in-transit sample in the 10 before it
\* reaches back to a region, i.e. the nearest earlier dip is more than 10 away
Opens(dips, s) == \A p \in dips : p < s => p < s - 10

\* the region the scan builds from the opening sample s: it runs to the last
\* dip reached from s by steps of at most 10 samples
RegionFrom(noise, dips, s) ==
    LET later == {e \in dips : e >= s /\ \A q \in dips : (s < q /\ q <= e) => ~Opens(dips, q)}
        last == CHOOSE e \in later : \A x \in later : x <= e
        inside == {q \in dips : s <= q /\ q <= last}
    IN  [start_index |-> s, end_index |-> last,
         depth |-> CHOOSE d \in {DipAt(noise, q) : q \in inside} : \A q \in inside : FLe(DipAt(noise, q), d)]

\* the returned regions are exactly the regions of the opening samples
ScannedRegions(noise) ==
    LET dips == Dips(noise)
        regs == ret.transit_regions
    IN  /\ Len(regs) = Cardinality({s \in dips : Opens(dips, s)})
        /\ \A j \in 1..Len(regs) :
               /\ regs[j].start_index \in dips
               /\ regs[j].end_index \in dips
               /\ Opens(dips, regs[j].start_index)
               /\ regs[j] = RegionFrom(noise, dips, regs[j].start_index)
        /\ \A j \in 1..(Len(regs) - 1) : regs[j + 1].start_index - regs[j].end_index > 10

\* C17: in generate_confirmed_planet an in-transit sample i opens a new region
\* exactly when there is no region yet or i is more than 10 samples after the
\* last region's end_index, and otherwise moves that end_index to i; so
\* consecutive returned regions are more than 10 samples apart, every
\* start_index and end_index is an in-transit sample, and a region's depth is
\* the largest dip applied at the in-transit samples from its start to its end.
C17_RegionsBuiltByScan ==
    Returned("generate_confirmed_planet") =>
        \E pick \in 0..MaxEntropy : ScannedRegions(RandomNormal(Unseeded, pick, 500, call.num_points))

\* a region extended over a gap of samples out of transit, whose latest dip
\* is smaller than its depth
C17_Witness ==
    /\ Returned("generate_confirmed_planet")
    /\ \E pick \in 0..MaxEntropy :
        LET noise == RandomNormal(Unseeded, pick, 500, call.num_points)
        IN  /\ ScannedRegions(noise)
            /\ \E j \in 1..Len(ret.transit_regions) :
                LET r == ret.transit_regions[j]
                IN  /\ r.start_index + 1 < r.end_index
                    /\ \E q \in (r.start_index + 1)..(r.end_index - 1) : q \notin Dips(noise)
                    /\ FLt(DipAt(noise, r.end_index), r.depth)

\* ---- C18 ----
VFinite(v) == \A j \in 1..Len(v) : IsFinite(v[j])

\* C18: no division inside the attribution engine yields NaN or Infinity:
\* the normalised deviation of a constant flux series is all zeros, the
\* Gaussian weights of every transit region are finite, also those of a
\* region with start_index = end_index, and so is the importance they add up to.
C18_DivisionsGuarded ==
    (call.fn = "explain_prediction" /\ ret.raised = "") =>
        /\ VFinite(NormalizedVariance(call.light_curve))
        /\ (\A j \in 1..Len(call.light_curve) : call.light_curve[j] = call.light_curve[1]) =>
               \A j \in 1..Len(call.light_curve) : NormalizedVariance(call.light_curve)[j] = Zero
        /\ \A r \in 1..Len(call.transit_regions) : VFinite(RegionWeights(call.time_points, call.transit_regions[r]))
        /\ VFinite(RawImportance(call.light_curve, call.time_points, call.classification, call.confidence, call.transit_regions))

\* ---- C19 ----
\* the explanation text of a successful prediction, its top regions and its
\* transit regions
Summary == Body("shap_explanation").v["explanation_summary"].v
TopRegions == Body("shap_explanation").v["top_contributing_regions"].v
HasPositiveTop == TopRegions # <<>> /\ FGt(TopRegions[1].v["importance"], Zero)
LabelledExoplanet == Succeeded /\ Body("classification") = PyStr("exoplanet")

\* the text names the top region's time span and contribution percentage
NamesTopRegion ==
    /\ Summary.cites
    /\ TopRegions # <<>>
    /\ Summary.start_time = TopRegions[1].v["start_time"]
    /\ Summary.end_time = TopRegions[1].v["end_time"]
    /\ Summary.contribution_percent = TopRegions[1].v["contribution_percent"]

\* C19 as stated: for every prediction labelled exoplanet, candidates
\* resolved to exoplanet with their empty region list included, the text
\* reports the confidence and the count of transit events, and names the top
\* region's time span and contribution percentage if and only if a top region
\* exists and its importance is positive.
C19_CountAlwaysReported ==
    LabelledExoplanet =>
        /\ Summary.confidence = Body("confidence_score")
        /\ Summary.n_transits = Len(Body("highlighted_regions").v)
        /\ IF HasPositiveTop THEN NamesTopRegion ELSE ~Summary.cites

\* C19 amended: for every prediction labelled exoplanet the text reports the
\* confidence; when the transit-region list is not empty it also reports the
\* count of transit events and names the top region's time span and
\* contribution percentage if and only if a top region exists and its
\* importance is positive; when the list is empty, as for a candidate resolved
\* to exoplanet, it says that no clear transit regions were identified and
\* gives neither a count nor a region.
C19_CountUnlessNoRegions ==
    LabelledExoplanet =>
        /\ Summary.confidence = Body("confidence_score")
        /\ IF Body("highlighted_regions").v = <<>>
           THEN /\ Summary.template = "exoplanet, no clear transit regions"
                /\ Summary.n_transits = -1
                /\ ~Summary.cites
           ELSE /\ Summary.template = "exoplanet, based on transit events"
                /\ Summary.n_transits = Len(Body("highlighted_regions").v)
                /\ IF HasPositiveTop THEN NamesTopRegion ELSE ~Summary.cites

\* a candidate resolved to exoplanet whose top region has positive
\* importance and goes unnamed
C19_Witness ==
    /\ LabelledExoplanet
    /\ Truth(call.sample_id) = "candidate"
    /\ Body("highlighted_regions").v = <<>>
    /\ HasPositiveTop
    /\ ~Summary.cites
====
